---- MODULE Spec2Model ----
(***************************************************************************)
(* Magnum::Platform::BasicScreenedApplication: the screen list, the        *)
(* add / remove / focus operations with their focus and blur               *)
(* notifications, and the propagation of viewport, draw and input events   *)
(* to the screens.                                                         *)
(***************************************************************************)
EXTENDS Integers, Sequences, FiniteSets

\* Number of Screen objects the user code may create.
MaxScreens == 3

Screens == 1 .. MaxScreens

\* nullptr
Null == 0

\* The one BasicScreenedApplication instance (value of a back-reference).
App == 1

\* Another application instance; of its list only the back-references of
\* the screens it holds are kept.
OtherApp == 2

\* BasicScreen::PropagatedEvent
PropagatedEvent == {"Draw", "Input"}

\* The five input events the application propagates.
InputEvents ==
    {"keyPressEvent", "keyReleaseEvent", "mousePressEvent",
     "mouseReleaseEvent", "mouseMoveEvent"}

VARIABLES
    exists,       \* exists[s]: the Screen object s is constructed and not destroyed
    first,        \* LinkedList::first(): the front screen or Null
    last,         \* LinkedList::last(): the back screen or Null
    next,         \* next[s]: BasicScreen::nextFartherScreen() or Null
    previous,     \* previous[s]: BasicScreen::nextNearerScreen() or Null
    list,         \* list[s]: BasicScreen::application(), App or Null
    flags,        \* flags[s]: BasicScreen::propagatedEvents()
    pc,           \* "idle", the event being dispatched, or "return"
    cursor,       \* the screen the dispatch loop is at, or Null
    accepted,     \* event.isAccepted() of the event being dispatched
    log,          \* callbacks made by the latest operation, in call order
    op,           \* the latest operation: name, argument, order before it
    added,        \* screens added by addScreen and not removed since
    alive,        \* the application is constructed and not destroyed
    everAdded     \* addScreen() has added a screen before

vars == <<exists, first, last, next, previous, list, flags, pc, cursor,
          accepted, log, op, added, alive, everAdded>>

----------------------------------------------------------------------------
\* Containers::LinkedList<BasicScreen> as a value

LL ==
    [first |-> first, last |-> last, next |-> next, previous |-> previous,
     list |-> list]

RECURSIVE Walk(_, _, _)
Walk(L, s, n) ==
    IF s = Null \/ n = 0 THEN <<>>
    ELSE <<s>> \o Walk(L, L.next[s], n - 1)

\* Back-to-front iteration from s along nextNearerScreen()
RECURSIVE WalkBack(_, _, _)
WalkBack(L, s, n) ==
    IF s = Null \/ n = 0 THEN <<>>
    ELSE <<s>> \o WalkBack(L, L.previous[s], n - 1)

\* Front-to-back iteration over a list value; one step more than there are
\* screens, so that a cycle shows as an over-long sequence.
Order(L) == Walk(L, L.first, MaxScreens + 1)

\* screens(): the screens front-to-back
screens == Order(LL)

Range(q) == {q[i] : i \in 1 .. Len(q)}

\* LinkedList::insert(item, before): before = Null inserts at the back
insert(L, item, before) ==
    IF L.first = Null THEN
        [L EXCEPT !.first = item, !.last = item, !.list[item] = App]
    ELSE IF before = Null THEN
        [L EXCEPT !.next[L.last] = item, !.previous[item] = L.last,
                  !.last = item, !.list[item] = App]
    ELSE IF L.previous[before] = Null THEN
        [L EXCEPT !.next[item] = L.first, !.previous[L.first] = item,
                  !.first = item, !.list[item] = App]
    ELSE
        [L EXCEPT !.previous[item] = L.previous[before],
                  !.next[item] = before,
                  !.next[L.previous[before]] = item,
                  !.previous[before] = item,
                  !.list[item] = App]

\* cut() that leaves the farther neighbour pointing at the cut item
cutOneWay(L, item) ==
    IF L.list[item] = Null THEN L
    ELSE
        LET p == L.previous[item]
            n == L.next[item]
        IN  [first |-> IF L.first = item THEN n ELSE L.first,
             last |-> IF L.last = item THEN p ELSE L.last,
             next |-> [s \in Screens |->
                          IF s = item THEN Null
                          ELSE IF s = p THEN n ELSE L.next[s]],
             previous |-> [L.previous EXCEPT ![item] = Null],
             list |-> [L.list EXCEPT ![item] = Null]]

\* LinkedList::cut(item): unlink; no-op on an unlinked item
cut(L, item) ==
    IF L.list[item] = Null THEN L
    ELSE
        LET p == L.previous[item]
            n == L.next[item]
        IN  [first |-> IF L.first = item THEN n ELSE L.first,
             last |-> IF L.last = item THEN p ELSE L.last,
             next |-> [s \in Screens |->
                          IF s = item THEN Null
                          ELSE IF s = p THEN n ELSE L.next[s]],
             previous |-> [s \in Screens |->
                          IF s = item THEN Null
                          ELSE IF s = n THEN p ELSE L.previous[s]],
             list |-> [L.list EXCEPT ![item] = Null]]

\* LinkedList::move(item, before)
move(L, item, before) == insert(cut(L, item), item, before)

Store(R) ==
    /\ first' = R.first
    /\ last' = R.last
    /\ next' = R.next
    /\ previous' = R.previous
    /\ list' = R.list

\* A callback made on a screen (or on the application, screen = Null),
\* together with what screens() held at the moment of the call and whether
\* the event was accepted when the callback returned.
Call(c, s, L) ==
    [call |-> c, screen |-> s, at |-> Order(L), accepted |-> FALSE]

Op(name, arg, ok) ==
    [name |-> name, arg |-> arg, pre |-> screens, ok |-> ok,
     had |-> everAdded]

Idle == pc = "idle"

\* The latest operation has just returned to its caller.
Returned == pc = "return"

NoOp ==
    [name |-> "none", arg |-> Null, pre |-> <<>>, ok |-> TRUE, had |-> FALSE]

----------------------------------------------------------------------------
\* Screen objects are created and destroyed by user code

\* BasicScreen::BasicScreen()
ScreenConstruct(s) ==
    /\ Idle
    /\ ~exists[s]
    /\ exists' = [exists EXCEPT ![s] = TRUE]
    /\ flags' = [flags EXCEPT ![s] = {}]
    /\ log' = <<>>
    /\ op' = Op("Screen", s, TRUE)
    /\ pc' = "return"
    /\ UNCHANGED <<alive, everAdded>>
    /\ UNCHANGED <<first, last, next, previous, list, cursor, accepted, added>>

\* BasicScreen::~BasicScreen(): a linked screen unlinks itself
ScreenDestruct(s) ==
    /\ Idle
    /\ exists[s]
    /\ exists' = [exists EXCEPT ![s] = FALSE]
    /\ flags' = [flags EXCEPT ![s] = {}]
    /\ Store(cut(LL, s))
    /\ added' = added \ {s}
    /\ log' = <<>>
    /\ op' = Op("~Screen", s, TRUE)
    /\ pc' = "return"
    /\ UNCHANGED <<alive, everAdded>>
    /\ UNCHANGED <<cursor, accepted>>

\* BasicScreen::setPropagatedEvents()
setPropagatedEvents(s, events) ==
    /\ Idle
    /\ exists[s]
    /\ flags' = [flags EXCEPT ![s] = events]
    /\ log' = <<>>
    /\ op' = Op("setPropagatedEvents", s, TRUE)
    /\ pc' = "return"
    /\ UNCHANGED <<alive, everAdded>>
    /\ UNCHANGED <<exists, first, last, next, previous, list, cursor,
                   accepted, added>>

----------------------------------------------------------------------------
\* Screen management

\* A precondition violation that still notifies the screen
ViolationNotifies(name, s) ==
    /\ log' = <<Call("blurEvent", s, LL)>>
    /\ op' = Op(name, s, FALSE)
    /\ pc' = "return"
    /\ UNCHANGED <<alive, everAdded>>
    /\ UNCHANGED <<exists, first, last, next, previous, list, flags, cursor,
                   accepted, added>>

\* The operation was called against its precondition: reported, not performed
Violation(name, s) ==
    /\ log' = <<>>
    /\ op' = Op(name, s, FALSE)
    /\ pc' = "return"
    /\ UNCHANGED <<alive, everAdded>>
    /\ UNCHANGED <<exists, first, last, next, previous, list, flags, cursor,
                   accepted, added>>

\* addScreen() that never calls focusEvent()
addScreenNoFocus(screen) ==
    /\ Idle
    /\ alive
    /\ exists[screen]
    /\ IF list[screen] # Null THEN Violation("addScreen", screen)
       ELSE
        /\ Store(insert(LL, screen, Null))
        /\ log' = <<>>
        /\ op' = Op("addScreen", screen, TRUE)
        /\ added' = added \cup {screen}
        /\ pc' = "return"
        /\ everAdded' = TRUE
        /\ UNCHANGED alive
        /\ UNCHANGED <<exists, flags, cursor, accepted>>

\* addScreen() that calls focusEvent() on every added screen
addScreenAlwaysFocus(screen) ==
    /\ Idle
    /\ alive
    /\ exists[screen]
    /\ IF list[screen] # Null THEN Violation("addScreen", screen)
       ELSE
        LET R == insert(LL, screen, Null)
        IN  /\ Store(R)
            /\ log' = <<Call("focusEvent", screen, R)>>
            /\ op' = Op("addScreen", screen, TRUE)
            /\ added' = added \cup {screen}
            /\ pc' = "return"
            /\ everAdded' = TRUE
            /\ UNCHANGED alive
            /\ UNCHANGED <<exists, flags, cursor, accepted>>

\* addScreen() that adds the screen as frontmost
addScreenFront(screen) ==
    /\ Idle
    /\ alive
    /\ exists[screen]
    /\ IF list[screen] # Null THEN Violation("addScreen", screen)
       ELSE
        LET R == insert(LL, screen, first)
        IN  /\ Store(R)
            /\ log' = IF first = Null
                      THEN <<Call("focusEvent", screen, R)>>
                      ELSE <<>>
            /\ op' = Op("addScreen", screen, TRUE)
            /\ added' = added \cup {screen}
            /\ pc' = "return"
            /\ everAdded' = TRUE
            /\ UNCHANGED alive
            /\ UNCHANGED <<exists, flags, cursor, accepted>>

\* addScreen() that focuses only the first screen the application ever got
addScreenFirstEver(screen) ==
    /\ Idle
    /\ alive
    /\ exists[screen]
    /\ IF list[screen] # Null THEN Violation("addScreen", screen)
       ELSE
        LET R == insert(LL, screen, Null)
        IN  /\ Store(R)
            /\ log' = IF ~everAdded
                      THEN <<Call("focusEvent", screen, R)>>
                      ELSE <<>>
            /\ op' = Op("addScreen", screen, TRUE)
            /\ added' = added \cup {screen}
            /\ pc' = "return"
            /\ everAdded' = TRUE
            /\ UNCHANGED alive
            /\ UNCHANGED <<exists, flags, cursor, accepted>>

addScreen(screen) ==
    /\ Idle
    /\ alive
    /\ exists[screen]
    /\ IF list[screen] # Null THEN Violation("addScreen", screen)
       ELSE
        LET R == insert(LL, screen, Null)
        IN  /\ Store(R)
            /\ log' = IF R.first = screen
                      THEN <<Call("focusEvent", screen, R)>>
                      ELSE <<>>
            /\ op' = Op("addScreen", screen, TRUE)
            /\ added' = added \cup {screen}
            /\ pc' = "return"
            /\ everAdded' = TRUE
            /\ UNCHANGED alive
            /\ UNCHANGED <<exists, flags, cursor, accepted>>

\* removeScreen() that unlinks the screen first and blurs it afterwards
removeScreenCutFirst(screen) ==
    /\ Idle
    /\ alive
    /\ exists[screen]
    /\ IF list[screen] # App THEN Violation("removeScreen", screen)
       ELSE
        LET R == cut(LL, screen)
        IN  /\ Store(R)
            /\ log' = <<Call("blurEvent", screen, R)>>
            /\ op' = Op("removeScreen", screen, TRUE)
            /\ added' = added \ {screen}
            /\ pc' = "return"
            /\ UNCHANGED <<alive, everAdded>>
            /\ UNCHANGED <<exists, flags, cursor, accepted>>

\* removeScreen() that blurs the screen and leaves it in the list
removeScreenNoCut(screen) ==
    /\ Idle
    /\ alive
    /\ exists[screen]
    /\ IF list[screen] # App THEN Violation("removeScreen", screen)
       ELSE
        /\ log' = <<Call("blurEvent", screen, LL)>>
        /\ op' = Op("removeScreen", screen, TRUE)
        /\ added' = added \ {screen}
        /\ pc' = "return"
        /\ UNCHANGED <<alive, everAdded>>
        /\ UNCHANGED <<exists, first, last, next, previous, list, flags,
                       cursor, accepted>>

\* removeScreen() that gives the focus to the screen that becomes the front
removeScreenFocusNext(screen) ==
    /\ Idle
    /\ alive
    /\ exists[screen]
    /\ IF list[screen] # App THEN Violation("removeScreen", screen)
       ELSE
        LET R == cut(LL, screen)
        IN  /\ log' = IF first = screen /\ R.first # Null
                      THEN <<Call("blurEvent", screen, LL),
                             Call("focusEvent", R.first, R)>>
                      ELSE <<Call("blurEvent", screen, LL)>>
            /\ Store(R)
            /\ op' = Op("removeScreen", screen, TRUE)
            /\ added' = added \ {screen}
            /\ pc' = "return"
            /\ UNCHANGED <<alive, everAdded>>
            /\ UNCHANGED <<exists, flags, cursor, accepted>>

\* removeScreen() that takes the screen out of the chain and leaves its
\* back-reference set
removeScreenKeepsRef(screen) ==
    /\ Idle
    /\ alive
    /\ exists[screen]
    /\ IF list[screen] # App THEN Violation("removeScreen", screen)
       ELSE
        LET R == cut(LL, screen)
        IN  /\ log' = <<Call("blurEvent", screen, LL)>>
            /\ Store([R EXCEPT !.list = list])
            /\ op' = Op("removeScreen", screen, TRUE)
            /\ added' = added \ {screen}
            /\ pc' = "return"
            /\ UNCHANGED <<alive, everAdded>>
            /\ UNCHANGED <<exists, flags, cursor, accepted>>

removeScreen(screen) ==
    /\ Idle
    /\ alive
    /\ exists[screen]
    /\ IF list[screen] # App THEN Violation("removeScreen", screen)
       ELSE
        /\ log' = <<Call("blurEvent", screen, LL)>>
        /\ Store(cut(LL, screen))
        /\ op' = Op("removeScreen", screen, TRUE)
        /\ added' = added \ {screen}
        /\ pc' = "return"
        /\ UNCHANGED <<alive, everAdded>>
        /\ UNCHANGED <<exists, flags, cursor, accepted>>

\* the check for the front screen left out
alreadyFocusedNever(screen) == FALSE

\* focusScreen(): the screen is the front one already, nothing to do
alreadyFocused(screen) == first = screen

\* focusScreen() that does not blur the previously focused screen
focusScreenNoBlur(screen) ==
    /\ Idle
    /\ alive
    /\ exists[screen]
    /\ IF list[screen] # App THEN Violation("focusScreen", screen)
       ELSE IF alreadyFocused(screen) THEN
        /\ log' = <<>>
        /\ op' = Op("focusScreen", screen, TRUE)
        /\ pc' = "return"
        /\ UNCHANGED <<alive, everAdded>>
        /\ UNCHANGED <<exists, first, last, next, previous, list, flags,
                       cursor, accepted, added>>
       ELSE
        LET R == move(LL, screen, first)
        IN  /\ log' = <<Call("focusEvent", screen, R)>>
            /\ Store(R)
            /\ op' = Op("focusScreen", screen, TRUE)
            /\ pc' = "return"
            /\ UNCHANGED <<alive, everAdded>>
            /\ UNCHANGED <<exists, flags, cursor, accepted, added>>

\* focusScreen() that also sends the previous front screen to the back
focusScreenRotate(screen) ==
    /\ Idle
    /\ alive
    /\ exists[screen]
    /\ IF list[screen] # App THEN Violation("focusScreen", screen)
       ELSE IF alreadyFocused(screen) THEN
        /\ log' = <<>>
        /\ op' = Op("focusScreen", screen, TRUE)
        /\ pc' = "return"
        /\ UNCHANGED <<alive, everAdded>>
        /\ UNCHANGED <<exists, first, last, next, previous, list, flags,
                       cursor, accepted, added>>
       ELSE
        LET R == move(move(LL, screen, first), first, Null)
        IN  /\ log' = <<Call("blurEvent", first, LL),
                        Call("focusEvent", screen, R)>>
            /\ Store(R)
            /\ op' = Op("focusScreen", screen, TRUE)
            /\ pc' = "return"
            /\ UNCHANGED <<alive, everAdded>>
            /\ UNCHANGED <<exists, flags, cursor, accepted, added>>

focusScreen(screen) ==
    /\ Idle
    /\ alive
    /\ exists[screen]
    /\ IF list[screen] # App THEN Violation("focusScreen", screen)
       ELSE IF alreadyFocused(screen) THEN
        /\ log' = <<>>
        /\ op' = Op("focusScreen", screen, TRUE)
        /\ pc' = "return"
        /\ UNCHANGED <<alive, everAdded>>
        /\ UNCHANGED <<exists, first, last, next, previous, list, flags,
                       cursor, accepted, added>>
       ELSE
        LET R == move(LL, screen, first)
        IN  /\ log' = <<Call("blurEvent", first, LL),
                        Call("focusEvent", screen, R)>>
            /\ Store(R)
            /\ op' = Op("focusScreen", screen, TRUE)
            /\ pc' = "return"
            /\ UNCHANGED <<alive, everAdded>>
            /\ UNCHANGED <<exists, flags, cursor, accepted, added>>

\* ~BasicScreenedApplication() that leaves the screens pointing at the
\* destroyed application
ScreenedApplicationDestructKeepsRefs ==
    /\ Idle
    /\ alive
    /\ alive' = FALSE
    /\ first' = Null
    /\ last' = Null
    /\ added' = {}
    /\ log' = <<>>
    /\ op' = Op("~ScreenedApplication", Null, TRUE)
    /\ pc' = "return"
    /\ UNCHANGED <<exists, next, previous, list, flags, cursor, accepted,
                   everAdded>>

\* ~BasicScreenedApplication(): the list unlinks every screen it still
\* holds; no screen is notified and none is deleted
ScreenedApplicationDestruct ==
    /\ Idle
    /\ alive
    /\ alive' = FALSE
    /\ first' = Null
    /\ last' = Null
    /\ next' = [s \in Screens |-> Null]
    /\ previous' = [s \in Screens |-> Null]
    /\ list' = [s \in Screens |-> IF list[s] = App THEN Null ELSE list[s]]
    /\ added' = {}
    /\ log' = <<>>
    /\ op' = Op("~ScreenedApplication", Null, TRUE)
    /\ pc' = "return"
    /\ UNCHANGED <<exists, flags, cursor, accepted, everAdded>>

\* addScreen() of the other application, as far as it touches the screen
otherAddScreen(screen) ==
    /\ Idle
    /\ exists[screen]
    /\ IF list[screen] # Null THEN Violation("other.addScreen", screen)
       ELSE
        /\ list' = [list EXCEPT ![screen] = OtherApp]
        /\ log' = <<>>
        /\ op' = Op("other.addScreen", screen, TRUE)
        /\ pc' = "return"
        /\ UNCHANGED <<exists, first, last, next, previous, flags, cursor,
                       accepted, added, alive, everAdded>>

\* removeScreen() of the other application, as far as it touches the screen
otherRemoveScreen(screen) ==
    /\ Idle
    /\ exists[screen]
    /\ IF list[screen] # OtherApp
       THEN Violation("other.removeScreen", screen)
       ELSE
        /\ list' = [list EXCEPT ![screen] = Null]
        /\ log' = <<>>
        /\ op' = Op("other.removeScreen", screen, TRUE)
        /\ pc' = "return"
        /\ UNCHANGED <<exists, first, last, next, previous, flags, cursor,
                       accepted, added, alive, everAdded>>

----------------------------------------------------------------------------
\* Event propagation.  The host calls one of the seven event handlers; the
\* handler walks the list, one screen per step, and returns.

Begin(event, start) ==
    /\ Idle
    /\ alive
    /\ pc' = event
    /\ UNCHANGED <<alive, everAdded>>
    /\ cursor' = start
    /\ accepted' = FALSE
    /\ op' = Op(event, Null, TRUE)
    /\ UNCHANGED <<exists, first, last, next, previous, list, flags, added>>

Return ==
    /\ pc' = "return"
    /\ UNCHANGED <<alive, everAdded>>
    /\ cursor' = Null
    /\ UNCHANGED <<exists, first, last, next, previous, list, flags, op,
                   added>>

\* viewportEvent() that goes to the screens without globalViewportEvent()
viewportEventNoGlobal ==
    /\ Begin("viewportEvent", first)
    /\ log' = <<>>

\* viewportEvent(): globalViewportEvent(), then every screen
viewportEvent ==
    /\ Begin("viewportEvent", first)
    /\ log' = <<Call("globalViewportEvent", Null, LL)>>

viewportEventLoop ==
    /\ pc = "viewportEvent"
    /\ IF cursor # Null THEN
        /\ log' = Append(log, Call("viewportEvent", cursor, LL))
        /\ cursor' = next[cursor]
        /\ UNCHANGED <<alive, everAdded>>
        /\ UNCHANGED <<exists, first, last, next, previous, list, flags, pc,
                       accepted, op, added>>
       ELSE
        /\ Return
        /\ UNCHANGED <<log, accepted>>

\* drawEvent(): screens with Draw back-to-front, then globalDrawEvent()
drawEvent ==
    /\ Begin("drawEvent", last)
    /\ log' = <<>>

\* drawEvent() that draws every screen, whatever its flags
drawEventLoopAll ==
    /\ pc = "drawEvent"
    /\ IF cursor # Null THEN
        /\ log' = Append(log, Call("drawEvent", cursor, LL))
        /\ cursor' = previous[cursor]
        /\ UNCHANGED <<alive, everAdded>>
        /\ UNCHANGED <<exists, first, last, next, previous, list, flags, pc,
                       accepted, op, added>>
       ELSE
        /\ log' = Append(log, Call("globalDrawEvent", Null, LL))
        /\ Return
        /\ UNCHANGED accepted

\* drawEvent() whose loop does not step on from a screen without Draw
drawEventLoopNoAdvance ==
    /\ pc = "drawEvent"
    /\ IF cursor # Null THEN
        /\ log' = IF "Draw" \in flags[cursor]
                  THEN Append(log, Call("drawEvent", cursor, LL))
                  ELSE log
        /\ cursor' = IF "Draw" \in flags[cursor]
                     THEN previous[cursor]
                     ELSE cursor
        /\ UNCHANGED <<alive, everAdded>>
        /\ UNCHANGED <<exists, first, last, next, previous, list, flags, pc,
                       accepted, op, added>>
       ELSE
        /\ log' = Append(log, Call("globalDrawEvent", Null, LL))
        /\ Return
        /\ UNCHANGED accepted

drawEventLoop ==
    /\ pc = "drawEvent"
    /\ IF cursor # Null THEN
        /\ log' = IF "Draw" \in flags[cursor]
                  THEN Append(log, Call("drawEvent", cursor, LL))
                  ELSE log
        /\ cursor' = previous[cursor]
        /\ UNCHANGED <<alive, everAdded>>
        /\ UNCHANGED <<exists, first, last, next, previous, list, flags, pc,
                       accepted, op, added>>
       ELSE
        /\ log' = Append(log, Call("globalDrawEvent", Null, LL))
        /\ Return
        /\ UNCHANGED accepted

\* The five input handlers: screens with Input front-to-back, until one of
\* them sets the event as accepted
keyPressEvent ==
    /\ Begin("keyPressEvent", first)
    /\ log' = <<>>

keyReleaseEvent ==
    /\ Begin("keyReleaseEvent", first)
    /\ log' = <<>>

mousePressEvent ==
    /\ Begin("mousePressEvent", first)
    /\ log' = <<>>

mouseReleaseEvent ==
    /\ Begin("mouseReleaseEvent", first)
    /\ log' = <<>>

mouseMoveEvent ==
    /\ Begin("mouseMoveEvent", first)
    /\ log' = <<>>

\* The loop of an input handler without the break on an accepted event
inputEventLoopNoBreak ==
    /\ pc \in InputEvents
    /\ IF cursor # Null THEN
        /\ IF "Input" \in flags[cursor] THEN
            /\ \E setAccepted \in BOOLEAN :
                /\ log' = Append(log, [Call(pc, cursor, LL)
                                          EXCEPT !.accepted = setAccepted])
                /\ accepted' = (accepted \/ setAccepted)
                /\ cursor' = next[cursor]
           ELSE
            /\ cursor' = next[cursor]
            /\ UNCHANGED <<log, accepted>>
        /\ UNCHANGED <<alive, everAdded>>
        /\ UNCHANGED <<exists, first, last, next, previous, list, flags, pc,
                       op, added>>
       ELSE
        /\ Return
        /\ UNCHANGED <<log, accepted>>

\* The loop of an input handler that calls every screen, whatever its flags
inputEventLoopAll ==
    /\ pc \in InputEvents
    /\ IF cursor # Null /\ ~accepted THEN
        /\ \E setAccepted \in BOOLEAN :
            /\ log' = Append(log, [Call(pc, cursor, LL)
                                      EXCEPT !.accepted = setAccepted])
            /\ accepted' = setAccepted
            /\ cursor' = IF setAccepted THEN cursor ELSE next[cursor]
        /\ UNCHANGED <<alive, everAdded>>
        /\ UNCHANGED <<exists, first, last, next, previous, list, flags, pc,
                       op, added>>
       ELSE
        /\ Return
        /\ UNCHANGED <<log, accepted>>

\* One iteration of an input handler's loop; setAccepted is what the
\* screen's handler did with the event.
inputEventLoop ==
    /\ pc \in InputEvents
    /\ IF cursor # Null /\ ~accepted THEN
        /\ IF "Input" \in flags[cursor] THEN
            /\ \E setAccepted \in BOOLEAN :
                /\ log' = Append(log, [Call(pc, cursor, LL)
                                          EXCEPT !.accepted = setAccepted])
                /\ accepted' = setAccepted
                /\ cursor' = IF setAccepted THEN cursor ELSE next[cursor]
           ELSE
            /\ cursor' = next[cursor]
            /\ UNCHANGED <<log, accepted>>
        /\ UNCHANGED <<alive, everAdded>>
        /\ UNCHANGED <<exists, first, last, next, previous, list, flags, pc,
                       op, added>>
       ELSE
        /\ Return
        /\ UNCHANGED <<log, accepted>>

\* The caller (user code or the host's event loop) goes on to its next call.
Continue ==
    /\ Returned
    /\ pc' = "idle"
    /\ UNCHANGED <<alive, everAdded>>
    /\ log' = <<>>
    /\ op' = NoOp
    /\ accepted' = FALSE
    /\ UNCHANGED <<exists, first, last, next, previous, list, flags, cursor,
                   added>>

----------------------------------------------------------------------------
Init ==
    /\ exists = [s \in Screens |-> FALSE]
    /\ first = Null
    /\ last = Null
    /\ next = [s \in Screens |-> Null]
    /\ previous = [s \in Screens |-> Null]
    /\ list = [s \in Screens |-> Null]
    /\ flags = [s \in Screens |-> {}]
    /\ pc = "idle"
    /\ cursor = Null
    /\ accepted = FALSE
    /\ log = <<>>
    /\ op = NoOp
    /\ added = {}
    /\ alive = TRUE
    /\ everAdded = FALSE

Next ==
    \/ \E s \in Screens : ScreenConstruct(s)
    \/ \E s \in Screens : ScreenDestruct(s)
    \/ \E s \in Screens : \E e \in SUBSET PropagatedEvent :
          setPropagatedEvents(s, e)
    \/ \E s \in Screens : addScreen(s)
    \/ \E s \in Screens : removeScreen(s)
    \/ \E s \in Screens : focusScreen(s)
    \/ ScreenedApplicationDestruct
    \/ \E s \in Screens : otherAddScreen(s)
    \/ \E s \in Screens : otherRemoveScreen(s)
    \/ viewportEvent
    \/ viewportEventLoop
    \/ drawEvent
    \/ drawEventLoop
    \/ keyPressEvent
    \/ keyReleaseEvent
    \/ mousePressEvent
    \/ mouseReleaseEvent
    \/ mouseMoveEvent
    \/ inputEventLoop
    \/ Continue

Spec == Init /\ [][Next]_vars

\* An event handler is a plain synchronous call: once entered, its loop
\* keeps running until the handler returns.
LiveSpec ==
    /\ Spec
    /\ WF_vars(viewportEventLoop)
    /\ WF_vars(drawEventLoop)
    /\ WF_vars(inputEventLoop)

----------------------------------------------------------------------------
\* Vocabulary of the properties

\* The callbacks of a log as <<callback, screen>> pairs, in call order
CallsOf(l) == [i \in 1 .. Len(l) |-> <<l[i].call, l[i].screen>>]

Reverse(q) == [i \in 1 .. Len(q) |-> q[Len(q) + 1 - i]]

\* The screens of q that have the propagated event e enabled, in q's order
Enabled(q, e) == SelectSeq(q, LAMBDA s : e \in flags[s])

\* The callback c on each screen of q, in q's order
OnEach(c, q) == [i \in 1 .. Len(q) |-> <<c, q[i]>>]

\* Position of s in q (0 when absent)
IndexOf(q, s) ==
    IF s \in Range(q) THEN CHOOSE i \in 1 .. Len(q) : q[i] = s ELSE 0

\* The latest operation is name and passed its precondition
Did(name) == op.name = name /\ op.ok

----------------------------------------------------------------------------
\* C1 Input short-circuit: during and after every input dispatch the
\* handlers called so far are those of the Input-enabled screens taken
\* front-to-back, without a gap; no handler is called after one that left
\* the event accepted; and the dispatch returns only after the accepting
\* handler or after the last Input-enabled screen.
InputShortCircuit ==
    op.name \in InputEvents =>
        LET in == Enabled(screens, "Input")
        IN  /\ Len(log) <= Len(in)
            /\ CallsOf(log) = OnEach(op.name, SubSeq(in, 1, Len(log)))
            /\ \A i \in 1 .. Len(log) - 1 : ~log[i].accepted
            /\ Returned =>
                /\ accepted <=> (log # <<>> /\ log[Len(log)].accepted)
                /\ ~accepted => Len(log) = Len(in)

\* A, B, C front-to-back, all with Input; B accepted a mouse press: A and B
\* ran, C did not.
InputShortCircuitWitness ==
    /\ Returned
    /\ op.name = "mousePressEvent"
    /\ Len(Enabled(screens, "Input")) = 3
    /\ Len(log) = 2
    /\ log[2].accepted

\* C2 Draw order: a returned draw dispatch has called drawEvent on exactly
\* the screens with Draw, back-to-front, and then globalDrawEvent once, as
\* the last call; globalDrawEvent is not called while the screens are drawn.
DrawOrder ==
    /\ pc = "drawEvent" => \A i \in 1 .. Len(log) : log[i].call = "drawEvent"
    /\ (Returned /\ op.name = "drawEvent") =>
        CallsOf(log) =
            Append(OnEach("drawEvent", Reverse(Enabled(screens, "Draw"))),
                   <<"globalDrawEvent", Null>>)

\* A draw dispatch returned over three screens that all have Draw.
DrawOrderWitness ==
    /\ Returned
    /\ op.name = "drawEvent"
    /\ Len(screens) = 3
    /\ Len(Enabled(screens, "Draw")) = 3
    /\ Len(log) = 4

\* C3 Viewport broadcast: the first call of a viewport dispatch is
\* globalViewportEvent, and a returned dispatch has then called
\* viewportEvent once on every screen of the list, front-to-back, whatever
\* the flags.
ViewportBroadcast ==
    op.name = "viewportEvent" =>
        /\ log # <<>>
        /\ CallsOf(log)[1] = <<"globalViewportEvent", Null>>
        /\ Returned =>
            CallsOf(log) = <<<<"globalViewportEvent", Null>>>>
                              \o OnEach("viewportEvent", screens)

\* A viewport dispatch returned over a list of three that holds a screen
\* with neither Draw nor Input.
ViewportBroadcastWitness ==
    /\ Returned
    /\ op.name = "viewportEvent"
    /\ Len(screens) = 3
    /\ \E s \in Range(screens) : flags[s] = {}
    /\ Len(log) = 4

\* C4 Focus-swap: focusScreen(B) with another screen A in front has called
\* blurEvent on A and then focusEvent on B and nothing else; B is now the
\* front and precedes A.
FocusSwap ==
    (Returned /\ Did("focusScreen") /\ op.pre[1] # op.arg) =>
        /\ CallsOf(log) = << <<"blurEvent", op.pre[1]>>,
                             <<"focusEvent", op.arg>> >>
        /\ screens # <<>>
        /\ screens[1] = op.arg
        /\ IndexOf(screens, op.arg) < IndexOf(screens, op.pre[1])

FocusSwapWitness ==
    /\ Returned
    /\ Did("focusScreen")
    /\ Len(op.pre) = 3
    /\ op.pre[3] = op.arg
    /\ Len(log) = 2

\* C5 focusScreen on the front screen: no callback is made and the order
\* stays as it was; and since every focusScreen leaves its screen in front,
\* a second focusScreen of the same screen is such a call.
FocusFrontNoOp ==
    (Returned /\ Did("focusScreen")) =>
        /\ op.pre[1] = op.arg => (log = <<>> /\ screens = op.pre)
        /\ first = op.arg

FocusFrontNoOpWitness ==
    /\ Returned
    /\ Did("focusScreen")
    /\ Len(op.pre) >= 2
    /\ op.pre[1] = op.arg
    /\ log = <<>>

\* C6 Add-first-focus: addScreen into an empty list has called focusEvent
\* on the added screen once, and nothing else.
AddFirstFocus ==
    (Returned /\ Did("addScreen") /\ op.pre = <<>>) =>
        CallsOf(log) = << <<"focusEvent", op.arg>> >>

AddFirstFocusWitness ==
    /\ Returned
    /\ Did("addScreen")
    /\ op.pre = <<>>
    /\ Len(log) = 1

\* C7 Add-subsequent-no-event: addScreen into a list that holds a screen
\* has made no callback.
AddSubsequentNoEvent ==
    (Returned /\ Did("addScreen") /\ op.pre # <<>>) => log = <<>>

AddSubsequentNoEventWitness ==
    /\ Returned
    /\ Did("addScreen")
    /\ Len(op.pre) = 2
    /\ log = <<>>

\* C8 addScreen inserts at the back: the order after addScreen(s) is the order
\* before it with s appended.
AddScreenAtBack ==
    (Returned /\ Did("addScreen")) =>
        /\ screens = Append(op.pre, op.arg)
        /\ last = op.arg
        /\ op.pre # <<>> => first = op.pre[1]

AddScreenAtBackWitness ==
    /\ Returned
    /\ Did("addScreen")
    /\ Len(op.pre) = 2
    /\ Len(screens) = 3
    /\ screens[3] = op.arg

\* C9 Remove-blurs: removeScreen(s) has called blurEvent on s once, at a
\* moment when s was in screens(); on return s is not in screens() and the
\* screen object still exists.
RemoveBlurs ==
    (Returned /\ Did("removeScreen")) =>
        /\ CallsOf(log) = << <<"blurEvent", op.arg>> >>
        /\ op.arg \in Range(log[1].at)
        /\ op.arg \notin Range(screens)
        /\ list[op.arg] = Null
        /\ exists[op.arg]

\* A screen that was not the front one has been removed.
RemoveBlursWitness ==
    /\ Returned
    /\ Did("removeScreen")
    /\ Len(op.pre) = 3
    /\ op.pre[2] = op.arg
    /\ Len(screens) = 2

\* C10 Round-trip membership: front-to-back iteration visits exactly the
\* screens added and not removed since, each once, and ends (no cycle).
RoundTripMembership ==
    /\ Range(screens) = added
    /\ Len(screens) = Cardinality(added)
    /\ Len(screens) <= MaxScreens

\* Three screens were added and the front one has been removed again.
RoundTripMembershipWitness ==
    /\ Returned
    /\ Did("removeScreen")
    /\ Len(op.pre) = 3
    /\ op.pre[1] = op.arg
    /\ added = Range(op.pre) \ {op.arg}
    /\ Range(screens) = added
    /\ Cardinality(added) = 2

\* The latest operation made the callback c on screen s
Called(c, s) == \E i \in 1 .. Len(log) : log[i].call = c /\ log[i].screen = s

\* The latest operation was a screen-management call that was performed
Managed == Returned /\ op.ok /\ op.name \in {"addScreen", "removeScreen", "focusScreen"}

\* The front screen is not the one that was the front before the operation
BecameFront == first # Null /\ (op.pre = <<>> \/ op.pre[1] # first)

\* The screen that was the front before the operation is not the front now
CeasedFront == op.pre # <<>> /\ op.pre[1] # first

\* C11 as claimed: every screen that becomes the front through addScreen,
\* removeScreen or focusScreen receives focusEvent, and every screen that
\* ceases to be the front receives blurEvent.
FocusBlurMarkFront ==
    Managed =>
        /\ BecameFront => Called("focusEvent", first)
        /\ CeasedFront => Called("blurEvent", op.pre[1])

\* C11 as amended: a screen that becomes the front through addScreen or
\* focusScreen receives focusEvent, and a screen that ceases to be the front
\* through focusScreen or removeScreen receives blurEvent; a screen that
\* becomes the front because removeScreen took the previous front away
\* receives no focusEvent.
FocusBlurOnAddAndFocus ==
    Managed =>
        /\ (BecameFront /\ op.name # "removeScreen") =>
                Called("focusEvent", first)
        /\ CeasedFront => Called("blurEvent", op.pre[1])
        /\ (BecameFront /\ op.name = "removeScreen") =>
                \A i \in 1 .. Len(log) : log[i].call # "focusEvent"

\* The front of three screens has been removed and the second one is the
\* front now, without a focusEvent.
FocusBlurOnAddAndFocusWitness ==
    /\ Managed
    /\ op.name = "removeScreen"
    /\ Len(op.pre) = 3
    /\ op.pre[1] = op.arg
    /\ first = op.pre[2]
    /\ ~Called("focusEvent", first)

\* C12 Precondition violations are reported, not performed: addScreen is
\* refused exactly for a screen that is linked into some list, removeScreen
\* and focusScreen exactly for a screen that is not linked into this list;
\* a refused call makes no callback and leaves the links, the
\* back-references and the order as they were.
PreconditionsReported ==
    [][(Idle /\ op'.name \in {"addScreen", "removeScreen", "focusScreen"}) =>
        /\ op'.ok <=> IF op'.name = "addScreen"
                      THEN list[op'.arg] = Null
                      ELSE list[op'.arg] = App
        /\ ~op'.ok =>
            /\ log' = <<>>
            /\ screens' = screens
            /\ UNCHANGED <<first, last, next, previous, list, added>>]_vars

\* addScreen was refused for a screen of the other application's list while
\* this list holds two screens.
PreconditionsReportedWitness ==
    /\ Returned
    /\ op.name = "addScreen"
    /\ ~op.ok
    /\ list[op.arg] = OtherApp
    /\ Len(screens) = 2
    /\ screens = op.pre

\* C13 Destroying the application unlinks and does not delete: the screens
\* the list held when the application was destroyed exist, have a null
\* back-reference and null neighbour links, which is the precondition of
\* another application's addScreen; no screen refers to a destroyed
\* application.
DestructUnlinks ==
    /\ ~alive =>
        /\ first = Null
        /\ last = Null
        /\ \A s \in Screens : list[s] # App
    /\ (Returned /\ op.name = "~ScreenedApplication") =>
        \A s \in Range(op.pre) :
            /\ exists[s]
            /\ list[s] = Null
            /\ next[s] = Null
            /\ previous[s] = Null

\* The application was destroyed while it held three screens.
DestructUnlinksWitness ==
    /\ Returned
    /\ op.name = "~ScreenedApplication"
    /\ Len(op.pre) = 3
    /\ ~alive

\* C14 Back-reference and membership: a screen's back-reference is this
\* application exactly when the screen is in screens() and exactly when it
\* was added and not removed since; a screen of this list is in no other
\* list; the back-reference is null for a destroyed screen, for a new screen
\* and after removeScreen.
BackReferenceMembership ==
    /\ \A s \in Screens :
        /\ list[s] \in {Null, App, OtherApp}
        /\ list[s] = App <=> s \in Range(screens)
        /\ list[s] = App <=> s \in added
        /\ ~exists[s] => list[s] = Null
    /\ (Returned /\ op.ok /\ op.name \in {"Screen", "~Screen", "removeScreen"})
            => list[op.arg] = Null

\* A screen was removed from this list while one screen stays in it and
\* another is in the other application's list.
BackReferenceMembershipWitness ==
    /\ Returned
    /\ Did("removeScreen")
    /\ first # Null
    /\ \E s \in Screens : list[s] = OtherApp
    /\ list[op.arg] = Null

\* The sequence q without the screen s
Without(q, s) == SelectSeq(q, LAMBDA x : x # s)

\* The events the application propagates to the screens
Events == {"viewportEvent", "drawEvent"} \cup InputEvents

\* C15 Navigation links are consistent with the order: nextFartherScreen()
\* and nextNearerScreen() are inverse to each other on the screens of the
\* list, null at the two ends and null on an unlinked screen; the walk along
\* nextFartherScreen() from first() is front-to-back iteration and the walk
\* along nextNearerScreen() from last() is its reverse.
NavigationConsistent ==
    /\ \A s, t \in Range(screens) : next[s] = t <=> previous[t] = s
    /\ first = Null <=> last = Null
    /\ first # Null => (previous[first] = Null /\ next[last] = Null)
    /\ \A s \in Screens :
        list[s] = Null => (next[s] = Null /\ previous[s] = Null)
    /\ \A i \in 1 .. Len(screens) - 1 : next[screens[i]] = screens[i + 1]
    /\ WalkBack(LL, last, MaxScreens + 1) = Reverse(screens)

\* The middle one of three screens has been cut out of the list.
NavigationConsistentWitness ==
    /\ Returned
    /\ Did("removeScreen")
    /\ Len(op.pre) = 3
    /\ op.pre[2] = op.arg
    /\ next[op.pre[1]] = op.pre[3]
    /\ previous[op.pre[3]] = op.pre[1]
    /\ next[op.arg] = Null

FocusOnEmptyAgain ==
    (Returned /\ Did("addScreen") /\ op.pre = <<>> /\ op.had) =>
        CallsOf(log) = << <<"focusEvent", op.arg>> >>

FocusOnEmptyAgainWitness ==
    /\ Returned
    /\ Did("addScreen")
    /\ op.pre = <<>>
    /\ op.had
    /\ Called("focusEvent", op.arg)

\* C19 focusScreen and removeScreen change only the target's position:
\* the other screens keep their relative order, focusScreen keeps the set
\* of linked screens, removeScreen removes the one screen, and no screen's
\* propagated events change.
OnlyTargetMoves ==
    [][(Idle /\ op'.ok /\ op'.name \in {"focusScreen", "removeScreen"}) =>
        /\ flags' = flags
        /\ Without(screens', op'.arg) = Without(screens, op'.arg)
        /\ op'.name = "focusScreen" => Range(screens') = Range(screens)
        /\ op'.name = "removeScreen" =>
                screens' = Without(screens, op'.arg)]_vars

\* The back one of three screens was focused: it is in front of the other
\* two, which are in the order they had.
OnlyTargetMovesWitness ==
    /\ Returned
    /\ Did("focusScreen")
    /\ Len(op.pre) = 3
    /\ screens = <<op.pre[3], op.pre[1], op.pre[2]>>
    /\ op.arg = op.pre[3]

\* C20 Dispatch completes and leaves the list alone: every dispatch that
\* was entered returns; it calls no screen twice; and from its entry to its
\* return the links, the back-references and the membership stay as they
\* were.
DispatchCompletes ==
    /\ (pc \in Events) ~> Returned
    /\ [](op.name \in Events =>
            /\ \A i, j \in 1 .. Len(log) :
                    (i # j /\ log[i].screen # Null) =>
                        log[i].screen # log[j].screen
            /\ screens = op.pre)
    /\ [][(pc \in Events \/ pc' \in Events) =>
            UNCHANGED <<first, last, next, previous, list, exists, added>>]_vars

\* An input dispatch over three screens has returned after calling all three.
DispatchCompletesWitness ==
    /\ Returned
    /\ op.name \in InputEvents
    /\ Len(op.pre) = 3
    /\ Len(log) = 3
    /\ screens = op.pre

====
